---- MODULE Spec2Model ----
(***************************************************************************)
(* A model of linefeed's benchmark harness, src/linefeed/scripts/          *)
(* benchmark.py: the trial loop of run_benchmark, the duration extraction, *)
(* the statistics, the summary table, the padded CSV export and main.      *)
(*                                                                         *)
(* Text is a sequence of one-character strings ("mu" stands for the micro  *)
(* sign, "nl" for a line break).  A float is an exact non-negative         *)
(* rational <<n, d>> in lowest terms; math.sqrt rounds to the nearest      *)
(* multiple of 1/SqrtGrid.  None is <<>> and a present value v is <<v>>.   *)
(***************************************************************************)
EXTENDS Integers, Sequences, FiniteSets, TLC

VARIABLES
  pc,            \* where main (or the function under check) stands
  csv_arg,       \* args.csv: None or Some(path)
  bi,            \* index in BENCHMARKS of the workload of the for loop of main
  i,             \* the loop variable of run_benchmark (0-based)
  run_times,     \* run_benchmark's list of durations
  stderr,        \* the text the duration extraction is applied to; a trial of the
                 \* harness reads its captured text within the step that captures it
  ret,           \* what run_benchmark returned / what the function under check returned
  summary_data,  \* main's list of summary rows
  stdout,        \* what was printed to the console, as a sequence of events
  stderr_out,    \* what was printed to the error stream, as a sequence of message kinds
  csv_file,      \* the lines of the CSV file, None while it does not exist
  exit_status,   \* None while running, Some(0) after a normal return, Some(1) after an uncaught exception
  attempted,     \* history: the workloads run_benchmark was called for, in call order
  succ,          \* history: per workload, the number of trials that succeeded
  attempts,      \* history: trials attempted for the current workload
  launches,      \* history: subprocess.run calls for the current workload
  failed_at,     \* history: 1-based number of the first failed trial of the current workload, 0 if none
  cause          \* history: what really went wrong in the last failed trial, None if nothing

vars == <<pc, csv_arg, bi, i, run_times, stderr, ret, summary_data, stdout,
          stderr_out, csv_file, exit_status, attempted, succ, attempts,
          launches, failed_at, cause>>

None == <<>>
Some(v) == <<v>>

\* ------------------------------------------------------------------ bounds

\* Number of catalog entries modelled (the code's range(1, 13) gives 12).
NumDays == 2

\* math.sqrt is rounded to the nearest multiple of 1/SqrtGrid.
SqrtGrid == 1000

\* ------------------------------------------------------------- constants

RUNS == 4

\* -------------------------------------------------------------- rationals

\* TLC passes an operator's arguments by name; the arithmetic below binds
\* each argument once (x \in {a}) so that it is evaluated once.

RECURSIVE GCD(_, _)
GCD(a, b) ==
  IF b = 0 THEN a
  ELSE CHOOSE g \in {GCD(y, x % y) : x \in {a}, y \in {b}} : TRUE

Rat(n, d) ==
  CHOOSE r \in {<<x \div g, y \div g>> : x \in {n}, y \in {d}, g \in {GCD(n, d)}} :
    TRUE

RAdd(a, b) ==
  CHOOSE r \in {Rat(x[1] * y[2] + y[1] * x[2], x[2] * y[2]) : x \in {a}, y \in {b}} :
    TRUE
RMul(a, b) ==
  CHOOSE r \in {Rat(x[1] * y[1], x[2] * y[2]) : x \in {a}, y \in {b}} : TRUE
RDivInt(a, k) == CHOOSE r \in {Rat(x[1], x[2] * k) : x \in {a}} : TRUE
RLe(a, b) == \E x \in {a}, y \in {b} : x[1] * y[2] <= y[1] * x[2]
RLt(a, b) == \E x \in {a}, y \in {b} : x[1] * y[2] < y[1] * x[2]
\* |a - b|
RDist(a, b) ==
  CHOOSE r \in {IF x[1] * y[2] >= y[1] * x[2]
                THEN Rat(x[1] * y[2] - y[1] * x[2], x[2] * y[2])
                ELSE Rat(y[1] * x[2] - x[1] * y[2], x[2] * y[2]) :
                x \in {a}, y \in {b}} : TRUE

RECURSIVE RSum(_)
RSum(xs) == IF xs = <<>> THEN <<0, 1>> ELSE RAdd(Head(xs), RSum(Tail(xs)))

RECURSIVE RSumSq(_)
RSumSq(xs) == IF xs = <<>> THEN <<0, 1>>
              ELSE RAdd(RMul(Head(xs), Head(xs)), RSumSq(Tail(xs)))

RECURSIVE Pow10(_)
Pow10(k) == IF k = 0 THEN 1 ELSE 10 * Pow10(k - 1)

\* floor of sqrt(m), by bisection on [lo, hi)
RECURSIVE ISqrtIn(_, _, _)
ISqrtIn(m, lo, hi) ==
  IF hi - lo <= 1 THEN lo
  ELSE CHOOSE r \in {IF mid * mid <= x THEN ISqrtIn(x, mid, h) ELSE ISqrtIn(x, l, mid) :
                       x \in {m}, l \in {lo}, h \in {hi}, mid \in {(lo + hi) \div 2}} :
         TRUE

ISqrt(m) == ISqrtIn(m, 0, 46341)

\* ------------------------------------------------------------------- text

Digits == <<"0", "1", "2", "3", "4", "5", "6", "7", "8", "9">>

IsDigit(c) == \E k \in 1..10 : Digits[k] = c

DigitVal(c) == (CHOOSE k \in 1..10 : Digits[k] = c) - 1

\* str(n) for n >= 0
RECURSIVE IntStr(_)
IntStr(n) == IF n < 10 THEN <<Digits[n + 1]>>
             ELSE IntStr(n \div 10) \o <<Digits[(n % 10) + 1]>>

\* int(s) for a string of digits
RECURSIVE StrInt(_)
StrInt(s) == IF s = <<>> THEN 0
             ELSE 10 * StrInt(SubSeq(s, 1, Len(s) - 1)) + DigitVal(s[Len(s)])

Repeat(c, k) == [j \in 1..k |-> c]

\* s.ljust(w), s.rjust(w), and s right-justified with zeros
ljust(s, w) == IF Len(s) >= w THEN s ELSE s \o Repeat(" ", w - Len(s))
rjust(s, w) == IF Len(s) >= w THEN s ELSE Repeat(" ", w - Len(s)) \o s
zfill(s, w) == IF Len(s) >= w THEN s ELSE Repeat("0", w - Len(s)) \o s

\* sep.join(cells)
RECURSIVE join(_, _)
join(sep, cells) ==
  CHOOSE r \in {IF cs = <<>> THEN <<>>
                ELSE IF Len(cs) = 1 THEN cs[1]
                ELSE cs[1] \o sep \o join(sep, Tail(cs)) : cs \in {cells}} : TRUE

\* n/d rounded to the nearest integer, ties to even
RoundHalfEven(n, d) ==
  LET q == n \div d
      r == n % d
  IN IF 2 * r < d THEN q
     ELSE IF 2 * r > d THEN q + 1
     ELSE IF q % 2 = 0 THEN q ELSE q + 1

\* f"{x:.3f}": the value rounded to thousandths, at least one integer digit
\* and exactly three decimals
FormatFixed3(x) ==
  LET t == RoundHalfEven(x[1] * 1000, x[2])
  IN IntStr(t \div 1000) \o <<".">> \o zfill(IntStr(t % 1000), 3)

\* f"{x:>9.3f}"
FormatCell(x) == rjust(FormatFixed3(x), 9)

\* os.path.basename(path): what follows the last "/"
basename(path) ==
  LET slashes == {k \in 1..Len(path) : path[k] = "/"}
      last == IF slashes = {} THEN 0
              ELSE CHOOSE k \in slashes : \A m \in slashes : m <= k
  IN SubSeq(path, last + 1, Len(path))

\* ---------------------------------------------------------------- catalog

ScriptPrefix == <<"t", "e", "s", "t", "s", "/", "l", "i", "n", "e", "f", "e", "e", "d", "/", "a", "d", "v", "e", "n", "t", "_", "o", "f", "_", "c", "o", "d", "e", "_", "2", "0", "2", "0", "/", "d", "a", "y">>
InputPrefix == <<"t", "e", "s", "t", "s", "/", "l", "i", "n", "e", "f", "e", "e", "d", "/", "a", "d", "v", "e", "n", "t", "_", "o", "f", "_", "c", "o", "d", "e", "_", "2", "0", "2", "0", "/", "i", "n", "p", "u", "t", "s", "/", "d", "a", "y">>

make_pair_for_day(day) ==
  <<ScriptPrefix \o zfill(IntStr(day), 2) \o <<".", "l", "f">>,
    InputPrefix \o zfill(IntStr(day), 2)
      \o <<"-", "s", "e", "c", "r", "e", "t", ".", "t", "x", "t">>>>

BENCHMARKS == [day \in 1..NumDays |-> make_pair_for_day(day)]

\* ---------------------------------------------------- duration extraction

RunTimeLit == <<"R", "u", "n", " ", "t", "i", "m", "e", ":", " ">>

At(t, p) == IF p >= 1 /\ p <= Len(t) THEN t[p] ELSE "eof"

LitAt(t, p, lit) == \A k \in 1..Len(lit) : At(t, p + k - 1) = lit[k]

\* the alternation (s|ms|µs) tried at position p: the unit matched, or None
UnitAt(t, p) ==
  IF At(t, p) = "s" THEN Some(<<"s">>)
  ELSE IF At(t, p) = "m" /\ At(t, p + 1) = "s" THEN Some(<<"m", "s">>)
  ELSE IF At(t, p) = "mu" /\ At(t, p + 1) = "s" THEN Some(<<"mu", "s">>)
  ELSE None

\* how many digits t holds from position p on: what a greedy \d+ takes
RECURSIVE DigitRun(_, _)
DigitRun(t, p) == IF IsDigit(At(t, p)) THEN 1 + DigitRun(t, p + 1) ELSE 0

\* (?:\.\d+)?(s|ms|µs) after a integer digits at q: the optional group with
\* f fraction digits, then with fewer, then skipped (f = 0); the first
\* attempt that is followed by a unit wins.  None, or Some(<<a, f>>).
RECURSIVE MatchFraction(_, _, _, _)
MatchFraction(t, q, a, f) ==
  IF f = 0
  THEN IF UnitAt(t, q + a) # None THEN Some(<<a, 0>>) ELSE None
  ELSE IF UnitAt(t, q + a + 1 + f) # None THEN Some(<<a, f>>)
  ELSE MatchFraction(t, q, a, f - 1)

\* (\d+(?:\.\d+)?)(s|ms|µs) at q, \d+ taking a digits and then backing off
RECURSIVE MatchNumber(_, _, _)
MatchNumber(t, q, a) ==
  IF a = 0 THEN None
  ELSE LET f == IF At(t, q + a) = "." THEN DigitRun(t, q + a + 1) ELSE 0
           m == MatchFraction(t, q, a, f)
       IN IF m # None THEN m ELSE MatchNumber(t, q, a - 1)

\* the pattern tried at start p: None, or Some(match.groups()), which is
\* <<value_str, unit>>
MatchAt(t, p) ==
  IF ~LitAt(t, p, RunTimeLit) THEN None
  ELSE LET q == p + Len(RunTimeLit)
           m == MatchNumber(t, q, DigitRun(t, q))
       IN IF m = None THEN None
          ELSE LET e == IF m[1][2] = 0 THEN q + m[1][1]
                        ELSE q + m[1][1] + 1 + m[1][2]
               IN Some(<<SubSeq(t, q, e - 1), UnitAt(t, e)[1]>>)

\* re.search(r"Run time: (\d+(?:\.\d+)?)(s|ms|µs)", stderr) scanning from p:
\* the leftmost start that matches
RECURSIVE SearchFrom(_, _)
SearchFrom(t, p) ==
  IF p > Len(t) THEN None
  ELSE LET m == MatchAt(t, p)
       IN IF m # None THEN m ELSE SearchFrom(t, p + 1)

re_search(t) == SearchFrom(t, 1)

\* float(value_str) for digits with an optional ".digits"
float(s) ==
  LET dots == {k \in 1..Len(s) : s[k] = "."}
  IN IF dots = {} THEN Rat(StrInt(s), 1)
     ELSE LET k == CHOOSE k \in dots : TRUE
              frac == SubSeq(s, k + 1, Len(s))
          IN Rat(StrInt(SubSeq(s, 1, k - 1)) * Pow10(Len(frac)) + StrInt(frac),
                 Pow10(Len(frac)))

\* a variant of lines 83-88 without the elif of line 85: what is not ms is
\* taken for seconds
NormalizeWithoutMicro(value, unit) ==
  IF unit = <<"m", "s">> THEN value ELSE RMul(value, <<1000, 1>>)

\* lines 83-88: the value in milliseconds
Normalize(value, unit) ==
  IF unit = <<"m", "s">> THEN value
  ELSE IF unit = <<"mu", "s">> THEN RDivInt(value, 1000)
  ELSE RMul(value, <<1000, 1>>)

\* lines 78-98: None when stderr holds no timing, else Some(run_time)
ExtractRunTime(t) ==
  LET match == re_search(t)
  IN IF match = None THEN None
     ELSE Some(Normalize(float(match[1][1]), match[1][2]))

\* -------------------------------------------------------------- statistics

\* min(run_times), max(run_times)
min(xs) == CHOOSE x \in {xs[k] : k \in 1..Len(xs)} :
             \A k \in 1..Len(xs) : RLe(x, xs[k])
max(xs) == CHOOSE x \in {xs[k] : k \in 1..Len(xs)} :
             \A k \in 1..Len(xs) : RLe(xs[k], x)

\* statistics.mean: the exact sum over the count
mean(xs) == RDivInt(RSum(xs), Len(xs))

\* statistics.variance: (n * sum(x^2) - sum(x)^2) / (n * (n - 1))
variance(xs) ==
  CHOOSE r \in
    {RDivInt(RDist(RMul(<<n, 1>>, sxx), RMul(sx, sx)), n * (n - 1)) :
       n \in {Len(xs)}, sx \in {RSum(xs)}, sxx \in {RSumSq(xs)}} : TRUE

\* math.sqrt, to the nearest multiple of 1/SqrtGrid
FloatSqrt(q) ==
  CHOOSE r \in
    {Rat(IF (2 * k + 1) * (2 * k + 1) * v[2] <= 4 * v[1] * SqrtGrid * SqrtGrid
         THEN k + 1 ELSE k, SqrtGrid) :
       v \in {q}, k \in {ISqrt((q[1] * SqrtGrid * SqrtGrid) \div q[2])}} : TRUE

\* statistics.stdev: the square root of the sample variance
stdev(xs) == FloatSqrt(variance(xs))

\* a variant of lines 125-150 with the population standard deviation
\* (statistics.pstdev) at line 131
calculate_with_pstdev(xs) ==
  IF xs = <<>> THEN None
  ELSE Some([min |-> min(xs),
             max |-> max(xs),
             mean |-> mean(xs),
             stdev |-> IF Len(xs) > 1
                       THEN FloatSqrt(RDivInt(RMul(variance(xs), <<Len(xs) - 1, 1>>),
                                              Len(xs)))
                       ELSE <<0, 1>>,
             runs |-> Len(xs)])

\* lines 125-150: None for an empty list, else Some(stats)
calculate_and_print_statistics(xs) ==
  IF xs = <<>> THEN None
  ELSE Some([min |-> min(xs),
             max |-> max(xs),
             mean |-> mean(xs),
             stdev |-> IF Len(xs) > 1 THEN stdev(xs) ELSE <<0, 1>>,
             runs |-> Len(xs)])

\* what lines 126 and 143-149 print
StatisticsPrints(xs) ==
  IF xs = <<>> THEN <<"no_successful_runs">> ELSE <<"statistics">>

\* ------------------------------------------------------------ the reports

\* print_summary_table, lines 161-179
print_summary_table(rows) ==
  <<"summary_title", "summary_header", "summary_rule">>
    \o [k \in 1..Len(rows) |-> "summary_row"]
    \o <<"summary_end">>

\* line 190
header == <<
  <<"F", "i", "l", "e">>,
  <<"M", "e", "a", "n", " ", "(", "m", "s", ")">>,
  <<"M", "i", "n", " ", "(", "m", "s", ")">>,
  <<"M", "a", "x", " ", "(", "m", "s", ")">>,
  <<"S", "t", "d", " ", "D", "e", "v", " ", "(", "m", "s", ")">> >>

\* lines 192-201
data_grid(rows) ==
  <<header>> \o [k \in 1..Len(rows) |->
    <<rows[k].file_name,
      FormatCell(rows[k].mean),
      FormatCell(rows[k].min),
      FormatCell(rows[k].max),
      FormatCell(rows[k].stdev)>>]

\* line 203
col_widths(grid) ==
  CHOOSE ws \in
    {[c \in 1..Len(g[1]) |->
       CHOOSE w \in {Len(g[r][c]) : r \in 1..Len(g)} :
         \A r \in 1..Len(g) : Len(g[r][c]) <= w] : g \in {grid}} : TRUE

\* a variant of lines 208-209 that leaves the cells as they are
unpadded_cells(row, widths) == row

\* lines 208-209
formatted_cells(row, widths) == [c \in 1..Len(row) |-> ljust(row[c], widths[c])]

\* lines 207-211: the lines write_summary_csv writes, each newline-terminated
csv_lines(rows) ==
  CHOOSE ls \in
    {[r \in 1..Len(grid) |->
       join(<<",", " ">>, formatted_cells(grid[r], widths)) \o <<"nl">>] :
       grid \in {data_grid(rows)}, widths \in {col_widths(data_grid(rows))}} : TRUE

\* ------------------------------------------------------------- exceptions

\* the classes an exception is an instance of
Bases(exc) ==
  CASE exc = "FileNotFoundError" -> {"FileNotFoundError", "OSError", "Exception"}
    [] exc = "PermissionError" -> {"PermissionError", "OSError", "Exception"}
    [] exc = "UnicodeDecodeError" -> {"UnicodeDecodeError", "ValueError", "Exception"}
    [] exc = "CalledProcessError" -> {"CalledProcessError", "SubprocessError", "Exception"}
    [] OTHER -> {exc}

\* a variant of lines 100-110 without the clause of line 108
TrialHandlerWithoutCatchAll(exc) ==
  IF "FileNotFoundError" \in Bases(exc) THEN "input_not_found"
  ELSE IF "CalledProcessError" \in Bases(exc) THEN "process_error"
  ELSE "uncaught"

\* lines 100-110: the message the first matching except clause prints,
\* "uncaught" when none matches
TrialHandler(exc) ==
  IF "FileNotFoundError" \in Bases(exc) THEN "input_not_found"
  ELSE IF "CalledProcessError" \in Bases(exc) THEN "process_error"
  ELSE IF "Exception" \in Bases(exc) THEN "unexpected"
  ELSE "uncaught"

\* line 213: IOError is OSError
CsvHandler(exc) ==
  IF "OSError" \in Bases(exc) THEN "csv_error" ELSE "uncaught"

\* ----------------------------------------------------------- environment

\* What one trial meets: open/read (line 59-60) succeeds or raises,
\* subprocess.run (lines 62-74) returns or raises, and the standard error
\* of the interpreter.
Txt10ms == RunTimeLit \o <<"1", "0", "m", "s">>
Txt20000us == RunTimeLit \o <<"2", "0", "0", "0", "0", "mu", "s", "nl">>
TxtP02s == <<"o", "k", "nl">> \o RunTimeLit \o <<"0", ".", "0", "2", "s">>
TxtNoTiming == <<"p", "a", "n", "i", "c">>

Stderrs == {Txt10ms, Txt20000us, TxtP02s, TxtNoTiming}

TrialOutcomes ==
  {[open |-> e, run |-> "not_run", err |-> <<>>] :
     e \in {"FileNotFoundError", "PermissionError", "UnicodeDecodeError"}}
  \cup {[open |-> "ok", run |-> e, err |-> TxtNoTiming] :
     e \in {"FileNotFoundError", "PermissionError", "CalledProcessError"}}
  \cup {[open |-> "ok", run |-> "ok", err |-> t] : t \in Stderrs}

\* the exception the try body of lines 58-98 raises, None if it raises none
Raised(o) ==
  IF o.open # "ok" THEN Some(o.open)
  ELSE IF o.run # "ok" THEN Some(o.run)
  ELSE None

\* what really went wrong in a trial, in the words of the error taxonomy
Cause(o) ==
  IF o.open = "FileNotFoundError" THEN Some("input_missing")
  ELSE IF o.open # "ok" THEN Some("input_unreadable")
  ELSE IF o.run = "CalledProcessError" THEN Some("nonzero_exit")
  ELSE IF o.run # "ok" THEN Some("launch_failure")
  ELSE IF ExtractRunTime(o.err) = None THEN Some("no_timing")
  ELSE None

\* ------------------------------------------------------------------- main

\* the truth value of an optional list or string: None and the empty one are false
Truthy(opt) == opt # None /\ opt[1] # <<>>

\* the values of --csv: absent, the empty string, a path
CsvPath == <<"o", "u", "t", ".", "c", "s", "v">>

Init ==
  /\ pc = "main"
  /\ csv_arg \in {None, Some(<<>>), Some(CsvPath)}
  /\ bi = 1
  /\ i = 0
  /\ run_times = <<>>
  /\ stderr = <<>>
  /\ ret = None
  /\ summary_data = <<>>
  /\ stdout = <<>>
  /\ stderr_out = <<>>
  /\ csv_file = None
  /\ exit_status = None
  /\ attempted = <<>>
  /\ succ = [b \in 1..NumDays |-> 0]
  /\ attempts = 0
  /\ launches = 0
  /\ failed_at = 0
  /\ cause = None

\* lines 221-232
Start ==
  /\ pc = "main"
  /\ summary_data' = <<>>
  /\ stdout' = Append(stdout, "start")
  /\ pc' = "loop"
  /\ UNCHANGED <<csv_arg, bi, i, run_times, stderr, ret, stderr_out, csv_file,
                 exit_status, attempted, succ, attempts, launches, failed_at,
                 cause>>

\* a variant in which a failed trial does not return: the loop goes on
LoopControlPastFailure(ok, n) ==
  IF n + 1 < RUNS THEN "next" ELSE "return"

\* lines 57, 98, 103, 107, 110, 112: after a trial the loop goes on to the
\* next trial, or run_benchmark returns
LoopControl(ok, n) ==
  IF ok /\ n + 1 < RUNS THEN "next" ELSE "return"

\* a variant that returns the durations collected before the failure
ReturnCollected(rt) == Some(rt)

\* lines 98, 103, 107, 110: what run_benchmark returns after a failed trial
ReturnOnFailure(rt) == None

\* lines 234-235 and 53-55: the for loop of main calls run_benchmark for the
\* next workload; with no workload left the loop ends
CallRunBenchmark ==
  /\ pc = "loop"
  /\ bi <= Len(BENCHMARKS)
  /\ run_times' = <<>>
  /\ i' = 0
  /\ stdout' = Append(stdout, "benchmarking")
  /\ attempted' = Append(attempted, bi)
  /\ attempts' = 0
  /\ launches' = 0
  /\ failed_at' = 0
  /\ cause' = None
  /\ IF RUNS > 0
       THEN pc' = "trial" /\ ret' = None
       ELSE pc' = "returned" /\ ret' = Some(<<>>)
  /\ UNCHANGED <<csv_arg, bi, stderr, summary_data, stderr_out, csv_file,
                 exit_status, succ>>

\* lines 57-110: one pass of the trial loop; o.err is the local stderr
Trial ==
  /\ pc = "trial"
  /\ \E o \in TrialOutcomes :
       LET exc == Raised(o)
           found == IF exc = None THEN ExtractRunTime(o.err) ELSE None
           ok == exc = None /\ found # None
           msg == IF exc # None THEN TrialHandler(exc[1]) ELSE "no_run_time"
           rt == IF ok THEN Append(run_times, found[1]) ELSE run_times
       IN /\ run_times' = rt
          /\ attempts' = attempts + 1
          /\ launches' = IF o.open = "ok" THEN launches + 1 ELSE launches
          /\ failed_at' = IF ~ok /\ failed_at = 0 THEN i + 1 ELSE failed_at
          /\ cause' = IF ok THEN cause ELSE Cause(o)
          /\ succ' = IF ok THEN [succ EXCEPT ![bi] = @ + 1] ELSE succ
          /\ stdout' = IF ok THEN Append(stdout, "run") ELSE stdout
          /\ IF ~ok /\ msg = "uncaught"
               THEN /\ pc' = "crashed"
                    /\ exit_status' = Some(1)
                    /\ UNCHANGED <<i, ret, stderr_out>>
               ELSE /\ stderr_out' = IF ok THEN stderr_out
                                     ELSE Append(stderr_out, msg)
                    /\ exit_status' = exit_status
                    /\ IF LoopControl(ok, i) = "next"
                         THEN pc' = "trial" /\ i' = i + 1 /\ ret' = ret
                         ELSE /\ pc' = "returned"
                              /\ i' = i
                              /\ ret' = IF ok THEN Some(rt)
                                        ELSE ReturnOnFailure(rt)
  /\ UNCHANGED <<csv_arg, bi, stderr, summary_data, csv_file, attempted>>

\* a variant in which a failed workload ends the loop of main
AfterWorkloadStopOnFailure(b, r) == IF r = None THEN "report" ELSE "loop"

\* lines 234, 242: where main goes after the workload at index b, whose
\* run_benchmark returned r
AfterWorkload(b, r) == "loop"

\* a variant of line 241 that inserts at the front
prepend(list, item) == <<item>> \o list

\* line 241: summary_data.append(summary_item)
append(list, item) == Append(list, item)

\* lines 235-241: main takes what run_benchmark returned; the locals of
\* run_benchmark are gone
Collect ==
  /\ pc = "returned"
  /\ IF Truthy(ret)
       THEN LET stats == calculate_and_print_statistics(ret[1])
            IN /\ stdout' = stdout \o StatisticsPrints(ret[1])
               /\ summary_data' =
                    IF stats # None
                    THEN append(summary_data,
                                [file_name |-> basename(BENCHMARKS[bi][1])]
                                  @@ stats[1])
                    ELSE summary_data
       ELSE UNCHANGED <<stdout, summary_data>>
  /\ pc' = AfterWorkload(bi, ret)
  /\ bi' = bi + 1
  /\ run_times' = <<>>
  /\ i' = 0
  /\ ret' = None
  /\ UNCHANGED <<csv_arg, stderr, stderr_out, csv_file, exit_status, attempted, succ,
                 attempts, launches, failed_at, cause>>

\* a variant of line 245 without the test of args.csv
WantsCsvAlways(arg) == TRUE

\* line 245: whether main calls write_summary_csv
WantsCsv(arg) == Truthy(arg)

\* lines 234 (the catalog is exhausted) and 243-245
Report ==
  /\ pc \in {"loop", "report"}
  /\ pc = "loop" => bi > Len(BENCHMARKS)
  /\ IF summary_data # <<>>
       THEN /\ stdout' = stdout \o print_summary_table(summary_data)
            /\ pc' = IF WantsCsv(csv_arg) THEN "csv" ELSE "finish"
       ELSE /\ stdout' = stdout
            /\ pc' = "finish"
  /\ UNCHANGED <<csv_arg, bi, i, run_times, stderr, ret, summary_data,
                 stderr_out, csv_file, exit_status, attempted, succ, attempts,
                 launches, failed_at, cause>>

\* What the write meets: open (line 206) raises, or a write (line 211)
\* raises after `written` lines, or all lines are written.
CsvOutcomes(rows) ==
  {[open |-> e, written |-> 0, write |-> "not_run"] :
     e \in {"FileNotFoundError", "PermissionError"}}
  \cup {[open |-> "ok", written |-> k, write |-> "OSError"] :
     k \in 0..Len(rows)}
  \cup {[open |-> "ok", written |-> Len(rows) + 1, write |-> "ok"]}

\* lines 246 and 182-214: write_summary_csv
WriteCsv ==
  /\ pc = "csv"
  /\ \E o \in CsvOutcomes(summary_data) :
       LET lines == csv_lines(summary_data)
           exc == IF o.open # "ok" THEN Some(o.open)
                  ELSE IF o.write # "ok" THEN Some(o.write)
                  ELSE None
       IN /\ csv_file' = IF o.open = "ok"
                         THEN Some(SubSeq(lines, 1, o.written))
                         ELSE csv_file
          /\ IF exc = None
               THEN /\ stdout' = Append(stdout, "csv_written")
                    /\ pc' = "finish"
                    /\ UNCHANGED <<stderr_out, exit_status>>
               ELSE IF CsvHandler(exc[1]) = "uncaught"
               THEN /\ pc' = "crashed"
                    /\ exit_status' = Some(1)
                    /\ UNCHANGED <<stdout, stderr_out>>
               ELSE /\ stderr_out' = Append(stderr_out, CsvHandler(exc[1]))
                    /\ pc' = "finish"
                    /\ UNCHANGED <<stdout, exit_status>>
  /\ UNCHANGED <<csv_arg, bi, i, run_times, stderr, ret, summary_data,
                 attempted, succ, attempts, launches, failed_at, cause>>

\* line 248, and main returns
Finish ==
  /\ pc = "finish"
  /\ stdout' = Append(stdout, "finished")
  /\ exit_status' = Some(0)
  /\ pc' = "done"
  /\ UNCHANGED <<csv_arg, bi, i, run_times, stderr, ret, summary_data,
                 stderr_out, csv_file, attempted, succ, attempts, launches,
                 failed_at, cause>>

Next == Start \/ CallRunBenchmark \/ Trial \/ Collect \/ Report \/ WriteCsv \/ Finish

Spec == Init /\ [][Next]_vars

\* main is one sequential thread: a step that can be taken is taken
FairSpec == Spec /\ WF_vars(Next)

\* ------------------------------------------- the duration extraction alone

\* the parts the texts of the extraction's inputs are made of
TimingLits == {RunTimeLit, <<"R", "u", "n", " ", "t", "i", "m", "e", ":">>}
TimingNums == {<<"2">>, <<"5", "0", "0">>, <<"4", "2", ".", "5">>, <<>>,
               <<"1", ".">>, <<".", "5">>}
TimingUnits == {<<"s">>, <<"m", "s">>, <<"mu", "s">>, <<"n", "s">>, <<>>,
                <<"s", "e", "c">>}
TimingLines ==
  {<<>>} \cup {l \o n \o u \o <<"nl">> :
                 l \in TimingLits, n \in TimingNums, u \in TimingUnits}

\* standard error texts of up to two timing lines after some other output
ExtractTexts ==
  {pre \o l1 \o l2 : pre \in {<<>>, <<"o", "k", "nl">>},
                     l1 \in TimingLines, l2 \in TimingLines}

InitExtract ==
  /\ pc = "extract"
  /\ stderr \in ExtractTexts
  /\ csv_arg = None
  /\ bi = 1
  /\ i = 0
  /\ run_times = <<>>
  /\ ret = None
  /\ summary_data = <<>>
  /\ stdout = <<>>
  /\ stderr_out = <<>>
  /\ csv_file = None
  /\ exit_status = None
  /\ attempted = <<>>
  /\ succ = [b \in 1..NumDays |-> 0]
  /\ attempts = 0
  /\ launches = 0
  /\ failed_at = 0
  /\ cause = None

\* lines 76-98 applied to a captured text
Extract ==
  /\ pc = "extract"
  /\ ret' = ExtractRunTime(stderr)
  /\ pc' = "extracted"
  /\ UNCHANGED <<csv_arg, bi, i, run_times, stderr, summary_data, stdout,
                 stderr_out, csv_file, exit_status, attempted, succ, attempts,
                 launches, failed_at, cause>>

SpecExtract == InitExtract /\ [][Extract]_vars

\* --------------------------------------------------- the statistics alone

StatsSamples == {<<10, 1>>, <<20, 1>>, <<30, 1>>}

\* the lists run_benchmark can build: at most RUNS durations
RECURSIVE ListsUpTo(_, _)
ListsUpTo(S, n) ==
  IF n = 0 THEN {<<>>}
  ELSE LET shorter == ListsUpTo(S, n - 1)
       IN shorter \cup {Append(l, x) : l \in {m \in shorter : Len(m) = n - 1},
                                       x \in S}

InitStats ==
  /\ pc = "stats"
  /\ run_times \in ListsUpTo(StatsSamples, RUNS)
  /\ stderr = <<>>
  /\ csv_arg = None
  /\ bi = 1
  /\ i = 0
  /\ ret = None
  /\ summary_data = <<>>
  /\ stdout = <<>>
  /\ stderr_out = <<>>
  /\ csv_file = None
  /\ exit_status = None
  /\ attempted = <<>>
  /\ succ = [b \in 1..NumDays |-> 0]
  /\ attempts = 0
  /\ launches = 0
  /\ failed_at = 0
  /\ cause = None

\* calculate_and_print_statistics applied to a list of durations
Statistics ==
  /\ pc = "stats"
  /\ ret' = calculate_and_print_statistics(run_times)
  /\ stdout' = stdout \o StatisticsPrints(run_times)
  /\ pc' = "stats_done"
  /\ UNCHANGED <<csv_arg, bi, i, run_times, stderr, summary_data, stderr_out,
                 csv_file, exit_status, attempted, succ, attempts, launches,
                 failed_at, cause>>

SpecStats == InitStats /\ [][Statistics]_vars

\* --------------------------------------------------- the CSV export alone

\* statistics of four-trial workloads: four runs of 10 ms; of 10, 10, 20,
\* 20 ms; of 100 s each; of 0, 0, 0 ms and 1000 s
CsvSamples == {
  calculate_and_print_statistics(<<<<10, 1>>, <<10, 1>>, <<10, 1>>, <<10, 1>>>>)[1],
  calculate_and_print_statistics(<<<<10, 1>>, <<10, 1>>, <<20, 1>>, <<20, 1>>>>)[1],
  [min |-> <<100000, 1>>, max |-> <<100000, 1>>, mean |-> <<100000, 1>>,
   stdev |-> <<0, 1>>, runs |-> 4],
  [min |-> <<0, 1>>, max |-> <<1000000, 1>>, mean |-> <<250000, 1>>,
   stdev |-> <<500000, 1>>, runs |-> 4] }

\* the summaries main can hold when it calls write_summary_csv: for every
\* workload of the catalog, in order, a row or none, and at least one row
RECURSIVE SummariesFrom(_)
SummariesFrom(b) ==
  IF b > Len(BENCHMARKS) THEN {<<>>}
  ELSE LET rest == SummariesFrom(b + 1)
       IN rest \cup {<<[file_name |-> basename(BENCHMARKS[b][1])] @@ st>> \o r :
                       st \in CsvSamples, r \in rest}

InitCsv ==
  /\ pc = "csv"
  /\ summary_data \in SummariesFrom(1) \ {<<>>}
  /\ csv_arg = Some(CsvPath)
  /\ stdout = print_summary_table(summary_data)
  /\ stderr = <<>>
  /\ bi = Len(BENCHMARKS) + 1
  /\ i = 0
  /\ run_times = <<>>
  /\ ret = None
  /\ stderr_out = <<>>
  /\ csv_file = None
  /\ exit_status = None
  /\ attempted = [b \in 1..Len(BENCHMARKS) |-> b]
  /\ succ = [b \in 1..NumDays |-> 0]
  /\ attempts = 0
  /\ launches = 0
  /\ failed_at = 0
  /\ cause = None

SpecCsv == InitCsv /\ [][WriteCsv]_vars

\* ----------------------------------------------------------- properties

Count(seq, x) == Cardinality({k \in 1..Len(seq) : seq[k] = x})
InSeq(x, seq) == \E k \in 1..Len(seq) : seq[k] = x
Last(seq) == seq[Len(seq)]
IsPrefix(a, b) == Len(a) <= Len(b) /\ SubSeq(b, 1, Len(a)) = a

\* main is past its for loop
AllProcessed == pc \in {"csv", "finish", "done"}

\* the file names of the summary rows, in row order
RowNames == [k \in 1..Len(summary_data) |-> summary_data[k].file_name]

\* the script base names of the workloads from b on with at least n
\* successful trials, in catalog order
RECURSIVE NamesWithSuccesses(_, _)
NamesWithSuccesses(b, n) ==
  IF b > Len(BENCHMARKS) THEN <<>>
  ELSE (IF succ[b] >= n THEN <<basename(BENCHMARKS[b][1])>> ELSE <<>>)
         \o NamesWithSuccesses(b + 1, n)

\* C1: once a trial of a workload has failed, no later trial of that workload
\* is attempted: the trials attempted stop at the first failed one, the
\* interpreter launches number at most the (1-based) number of that trial,
\* and neither ever exceeds the configured run count.
C1_AbortAfterFirstFailure ==
  /\ attempts <= RUNS
  /\ launches <= RUNS
  /\ launches <= attempts
  /\ failed_at # 0 => /\ attempts = failed_at
                      /\ launches <= failed_at
                      /\ pc # "trial"

\* a workload whose second trial exits non-zero: two launches, no third trial
C1_Witness ==
  /\ pc = "done"
  /\ failed_at = 2
  /\ cause = Some("nonzero_exit")
  /\ launches = 2
  /\ attempts = 2

\* C2: whatever trials fail, main calls run_benchmark for every workload of
\* the catalog exactly once and in catalog order; after the loop all of them
\* have been attempted.
C2_EveryWorkloadAttempted ==
  /\ attempted = [k \in 1..Len(attempted) |-> k]
  /\ Len(attempted) <= Len(BENCHMARKS)
  /\ pc \in {"trial", "returned"} => Len(attempted) = bi
  /\ pc \in {"report", "csv", "finish", "done"} =>
       Len(attempted) = Len(BENCHMARKS)

\* the first workload failed and a later one ran all its trials
C2_Witness ==
  /\ pc = "done"
  /\ succ[1] < RUNS
  /\ \E b \in 2..Len(BENCHMARKS) : succ[b] = RUNS
  /\ Len(attempted) = Len(BENCHMARKS)

\* C3 as stated: after all workloads are processed the summary rows are
\* exactly the workloads with at least one successful trial, in catalog order.
C3_RowsAreWorkloadsWithASuccess ==
  AllProcessed => RowNames = NamesWithSuccesses(1, 1)

\* C3 as amended: after all workloads are processed the summary rows are
\* exactly the workloads all of whose RUNS trials succeeded, in catalog order.
C3_RowsAreFullySuccessfulWorkloads ==
  AllProcessed => RowNames = NamesWithSuccesses(1, RUNS)

\* a failed first workload is skipped and the rows of the others keep
\* their order
C3_Witness ==
  /\ pc = "done"
  /\ succ[1] = 0
  /\ Len(summary_data) = Len(BENCHMARKS) - 1
  /\ Len(summary_data) >= 1
  /\ RowNames[1] = basename(BENCHMARKS[2][1])

\* C4: with every step that can be taken being taken, the harness never ends
\* by an uncaught exception and always reaches its end with status 0,
\* whatever the trials and the CSV write meet.
C4_AlwaysFinishesWithSuccess ==
  /\ [](pc # "crashed" /\ exit_status # Some(1))
  /\ <>(pc = "done" /\ exit_status = Some(0) /\ Last(stdout) = "finished")

\* finished with status 0 after an unreadable input and a failed CSV write
C4_Witness ==
  /\ pc = "done"
  /\ exit_status = Some(0)
  /\ InSeq("unexpected", stderr_out)
  /\ InSeq("csv_error", stderr_out)

\* C5: a failed trial is reported as a missing input only when the input
\* file is missing or unreadable, and as a process execution error when the
\* interpreter exits non-zero or cannot be launched.
C5_FailureReportedUnderItsKind ==
  (pc = "returned" /\ cause # None) =>
    /\ Last(stderr_out) = "input_not_found" =>
         cause \in {Some("input_missing"), Some("input_unreadable")}
    /\ cause \in {Some("nonzero_exit"), Some("launch_failure")} =>
         Last(stderr_out) = "process_error"

CsvAttempted ==
  \/ csv_file # None
  \/ InSeq("csv_written", stdout)
  \/ InSeq("csv_error", stderr_out)

TablePrinted ==
  /\ InSeq("summary_end", stdout)
  /\ Count(stdout, "summary_row") = Len(summary_data)
  /\ summary_data # <<>>

\* C9: the CSV export is attempted only with a path given by --csv and only
\* after the whole summary table is printed; a failed write is reported to
\* the error stream and main goes on to its finish step; what was printed
\* to the console is never taken back.
C9_CsvOnlyOnRequestAfterTable ==
  /\ [](/\ (pc = "csv" \/ CsvAttempted) =>
            /\ csv_arg # None
            /\ csv_arg # Some(<<>>)
            /\ TablePrinted
        /\ InSeq("csv_error", stderr_out) =>
            /\ pc \in {"finish", "done"}
            /\ TablePrinted
        /\ (pc = "done" /\ CsvAttempted) =>
            /\ Last(stdout) = "finished"
            /\ InSeq("csv_error", stderr_out) # InSeq("csv_written", stdout))
  /\ [][IsPrefix(stdout, stdout')]_vars

\* the write failed after the header line, and main finished
C9_Witness ==
  /\ pc = "done"
  /\ InSeq("csv_error", stderr_out)
  /\ csv_file # None
  /\ Len(csv_file[1]) = 1
  /\ TablePrinted

\* C10: run_benchmark returns a list only when all RUNS trials succeeded and
\* None after any failed trial, whatever succeeded before; so every summary
\* row has runs = RUNS, and a workload with some successes and a failure
\* gets neither a statistics block nor a row.
C10_AllOrNothing ==
  /\ pc = "returned" =>
       /\ (ret = None) = (failed_at # 0)
       /\ ret # None => ret = Some(run_times) /\ Len(run_times) = RUNS
  /\ \A k \in 1..Len(summary_data) : summary_data[k].runs = RUNS
  /\ Count(stdout, "statistics") = Len(summary_data)
  /\ \A b \in 1..Len(BENCHMARKS) :
       (b < bi /\ succ[b] < RUNS) => ~InSeq(basename(BENCHMARKS[b][1]), RowNames)

\* two successes, then a failure: no statistics block and no row
C10_Witness ==
  /\ pc = "returned"
  /\ Len(run_times) = 2
  /\ failed_at = 3
  /\ ret = None
  /\ bi = 1

\* C6, stated without the matching engine: an occurrence of
\* "Run time: <number><unit>" at p is the literal, a digits, optionally a
\* point and f digits, and one of the three unit tokens.
MaxNumLen == 4

UnitTokens == {<<"s">>, <<"m", "s">>, <<"mu", "s">>}

AllDigits(t, p, k) == \A j \in 0..(k - 1) : IsDigit(At(t, p + j))

Occurrences(t) ==
  {o \in {p \in 1..Len(t) : LitAt(t, p, RunTimeLit)}
           \X (1..MaxNumLen) \X (0..MaxNumLen) \X UnitTokens :
     LET q == o[1] + Len(RunTimeLit)
         e == IF o[3] = 0 THEN q + o[2] ELSE q + o[2] + 1 + o[3]
     IN /\ AllDigits(t, q, o[2])
        /\ o[3] > 0 => At(t, q + o[2]) = "." /\ AllDigits(t, q + o[2] + 1, o[3])
        /\ LitAt(t, e, o[4])}

\* the milliseconds an occurrence stands for: ms as is, µs / 1000, s * 1000
OccurrenceMs(t, o) ==
  LET q == o[1] + Len(RunTimeLit)
      whole == StrInt(SubSeq(t, q, q + o[2] - 1))
      frac == IF o[3] = 0 THEN 0
              ELSE StrInt(SubSeq(t, q + o[2] + 1, q + o[2] + o[3]))
      num == whole * Pow10(o[3]) + frac
  IN IF o[4] = <<"m", "s">> THEN Rat(num, Pow10(o[3]))
     ELSE IF o[4] = <<"mu", "s">> THEN Rat(num, Pow10(o[3]) * 1000)
     ELSE Rat(num * 1000, Pow10(o[3]))

Line2s == RunTimeLit \o <<"2", "s", "nl">>
Line500us == RunTimeLit \o <<"5", "0", "0", "mu", "s", "nl">>
Line42p5ms == RunTimeLit \o <<"4", "2", ".", "5", "m", "s", "nl">>
Line2 == RunTimeLit \o <<"2", "nl">>
Line2ns == RunTimeLit \o <<"2", "n", "s", "nl">>
LineMs == RunTimeLit \o <<"m", "s", "nl">>

\* C6: the extraction yields the milliseconds of the first occurrence of
\* "Run time: <number><unit>" in the text (ms unchanged, µs / 1000,
\* s * 1000), and fails when the text holds none: no unit is assumed for a
\* number without one, nor a number for a unit without one.
C6_FirstOccurrenceInMilliseconds ==
  pc = "extracted" =>
    /\ Occurrences(stderr) = {} => ret = None
    /\ \A o \in Occurrences(stderr) :
         (\A o2 \in Occurrences(stderr) : o[1] <= o2[1]) =>
           ret = Some(OccurrenceMs(stderr, o))
    /\ stderr = Line2s => ret = Some(<<2000, 1>>)
    /\ stderr = Line500us => ret = Some(<<1, 2>>)
    /\ stderr = Line42p5ms => ret = Some(<<85, 2>>)
    /\ stderr \in {Line2, Line2ns, LineMs} => ret = None

\* two timing lines, 42.5ms then 2s: the first one is the duration
C6_Witness ==
  /\ pc = "extracted"
  /\ stderr = Line42p5ms \o Line2s
  /\ ret = Some(<<85, 2>>)

\* the sum of (x - m)^2 over the list
RECURSIVE SumSqDev(_, _)
SumSqDev(xs, m) ==
  IF xs = <<>> THEN <<0, 1>>
  ELSE RAdd(RMul(RDist(Head(xs), m), RDist(Head(xs), m)), SumSqDev(Tail(xs), m))

\* s is the N-1 sample standard deviation of xs, to the grid of the square
\* root: s = k / SqrtGrid with |k / SqrtGrid - sqrt(v)| <= 1 / (2 SqrtGrid),
\* v the sum of squared deviations from the mean over N - 1
IsSampleStdev(s, xs) ==
  LET m == RDivInt(RSum(xs), Len(xs))
      v == RDivInt(SumSqDev(xs, m), Len(xs) - 1)
      k == (s[1] * SqrtGrid) \div s[2]
  IN /\ (s[1] * SqrtGrid) % s[2] = 0
     /\ 4 * v[1] * SqrtGrid * SqrtGrid <= (2 * k + 1) * (2 * k + 1) * v[2]
     /\ k > 0 => (2 * k - 1) * (2 * k - 1) * v[2] <= 4 * v[1] * SqrtGrid * SqrtGrid

\* C7: statistics are built only from a non-empty list; they have
\* runs >= 1 and min <= mean <= max, stdev exactly 0 for one duration and the
\* N-1 sample standard deviation for more; 10, 20, 30 give min 10, max 30,
\* mean 20, stdev 10, runs 3.
C7_StatisticsWellFormed ==
  pc = "stats_done" =>
    /\ (ret = None) = (run_times = <<>>)
    /\ ret # None =>
         /\ ret[1].runs = Len(run_times)
         /\ ret[1].runs >= 1
         /\ RLe(ret[1].min, ret[1].mean)
         /\ RLe(ret[1].mean, ret[1].max)
         /\ ret[1].runs = 1 => ret[1].stdev = <<0, 1>>
         /\ ret[1].runs > 1 => IsSampleStdev(ret[1].stdev, run_times)
    /\ run_times = <<<<10, 1>>, <<20, 1>>, <<30, 1>>>> =>
         ret = Some([min |-> <<10, 1>>, max |-> <<30, 1>>, mean |-> <<20, 1>>,
                     stdev |-> <<10, 1>>, runs |-> 3])

\* the statistics of 10, 20, 30
C7_Witness ==
  /\ pc = "stats_done"
  /\ run_times = <<<<10, 1>>, <<20, 1>>, <<30, 1>>>>
  /\ ret # None
  /\ ret[1].stdev = <<10, 1>>
  /\ ret[1].runs = 3

\* line.split(",")
RECURSIVE SplitComma(_)
SplitComma(line) ==
  LET commas == {k \in 1..Len(line) : line[k] = ","}
  IN IF commas = {} THEN <<line>>
     ELSE LET k == CHOOSE k \in commas : \A m \in commas : k <= m
          IN <<SubSeq(line, 1, k - 1)>> \o SplitComma(SubSeq(line, k + 1, Len(line)))

\* the fields of a written line: without the line break, split at the
\* commas, the blank that follows a comma dropped
Fields(line) ==
  LET raw == SplitComma(SubSeq(line, 1, Len(line) - 1))
  IN [c \in 1..Len(raw) |-> IF c = 1 THEN raw[c] ELSE Tail(raw[c])]

\* the widest rendering of column c over the header and all rows
MaxRendered(rows, c) ==
  LET grid == data_grid(rows)
  IN CHOOSE w \in {Len(grid[r][c]) : r \in 1..Len(grid)} :
       \A r \in 1..Len(grid) : Len(grid[r][c]) <= w

\* C8: every line written to the CSV file, the header included, has five
\* comma-delimited fields, and every field of a column is as wide as the
\* widest rendering of that column over the header and all rows.
C8_CsvColumnsUniform ==
  csv_file # None =>
    \A r \in 1..Len(csv_file[1]) :
      LET line == csv_file[1][r]
      IN /\ Last(line) = "nl"
         /\ Count(line, ",") = 4
         /\ Len(Fields(line)) = 5
         /\ \A c \in 1..5 : Len(Fields(line)[c]) = MaxRendered(summary_data, c)
         /\ \A c \in 2..5 : SplitComma(line)[c][1] = " "

\* all lines written for two rows whose means render 9 and 10 wide
C8_Witness ==
  /\ pc = "finish"
  /\ csv_file # None
  /\ Len(summary_data) = 2
  /\ Len(csv_file[1]) = 3
  /\ Len(FormatCell(summary_data[1].mean)) = 9
  /\ Len(FormatCell(summary_data[2].mean)) = 10

====
